---- MODULE Spec2Model ----
(***************************************************************************)
(* Multi-sensor maritime track fusion with dark-ship detection.            *)
(*                                                                         *)
(* The fusion runner (ingestion/fusion/fusion_ingester.py), the track      *)
(* manager (track_manager.py) and the correlation engine (correlation.py)  *)
(* as a state machine, plus the world simulator / AIS ingester pair that   *)
(* share the fleet store.                                                  *)
(*                                                                         *)
(* Units.  Time is in seconds.  Positions are one-dimensional, along the   *)
(* east-west axis, in units of 10 m.  A track's position uncertainty is    *)
(* kept as its inverse variance `prec` in units of 1e-8 m^-2, so that      *)
(* position_uncertainty_m = 10000 / sqrt(prec) and the inverse-variance    *)
(* fusion of update_track is the exact integer sum prec + SensorWeight.    *)
(* Confidences of the dark-ship rules are in hundredths, correlation       *)
(* costs and confidences in 1e-4.                                          *)
(***************************************************************************)
EXTENDS Integers, Sequences, FiniteSets, TLC

\* ------------------------------------------------------------------------
\* Program constants
\* ------------------------------------------------------------------------

Sensors == {"ais", "radar", "satellite", "drone"}

\* SENSOR_CONFIG[s].position_error_m
PositionErrorM(s) ==
    CASE s = "ais" -> 10
      [] s = "radar" -> 500
      [] s = "satellite" -> 2000
      [] s = "drone" -> 50

\* 1 / position_error_m^2, in units of 1e-8 m^-2 (det_weight of update_track)
SensorWeight(s) == 100000000 \div (PositionErrorM(s) * PositionErrorM(s))

MaxDistanceM == 10000
MinDistanceM == 500
SigmaMultiplier == 4
MaxTimeDeltaS == 120
MaxSpeedChangeKnots == 15
MaxCourseChangeDeg == 120
TentativeToConfirmedUpdates == 3
CoastingTimeoutS == 300
DropTimeoutS == 600
MinPositionUncertaintyM == 100
MaxPositionUncertaintyM == 5000
\* new_track_cost = 0.85, in 1e-4
NewTrackCost == 8500
AisGapThresholdS == 900
\* threshold_s argument of _has_recent_non_ais_updates
RecentNonAisS == 120
MinRadarCorrelations == 3
\* dark-ship confidences, in hundredths
DarkShipAlertThreshold == 60
BaseDarkConfidence == 50
RadarConfidenceBoost == 20
SatelliteConfidenceBoost == 10
DroneConfidenceBoost == 30
SatelliteDarkConfidence == 60

\* Optional[datetime] = None and Optional[float] = None
NoTime == -1
NoGap == -1000000
\* float("nan"): every sum or product with it is NaN, every comparison false
NaN == -99999999

\* ------------------------------------------------------------------------
\* Arithmetic helpers
\* ------------------------------------------------------------------------

Abs(x) == IF x < 0 THEN -x ELSE x
Min(a, b) == IF a <= b THEN a ELSE b
Max(a, b) == IF a >= b THEN a ELSE b

\* integer division rounding toward zero (float results are kept to the
\* model's resolution)
TruncDiv(a, b) == IF a >= 0 THEN a \div b ELSE -((-a) \div b)

CeilDiv(a, b) == (a + b - 1) \div b

\* Newton's iteration downward from an estimate g >= sqrt(x)
RECURSIVE SqrtSearch(_, _)
SqrtSearch(x, g) ==
    LET y == (g + x \div g) \div 2
    IN IF y >= g THEN g ELSE SqrtSearch(x, y)

\* floor(sqrt(x)) for 0 <= x < 2^31
ISqrt(x) ==
    IF x < 2 THEN x
    ELSE SqrtSearch(x, IF x < 10000 THEN 100
                       ELSE IF x < 1000000 THEN 1000
                       ELSE IF x < 100000000 THEN 10000 ELSE 46340)

\* ------------------------------------------------------------------------
\* Observations (parse_detection's common format) and unified tracks
\* ------------------------------------------------------------------------

\* speed_knots = 0 and course = 0 stand for None (_safe_float maps 0 to None);
\* mmsi = "" stands for a missing or empty mmsi; only AIS messages are parsed
\* for an mmsi, only satellite messages for is_dark_ship.
Detection(sensor, mmsi, pos, speed, course, dark) ==
    [sensor |-> sensor, mmsi |-> mmsi, pos |-> pos, speed_knots |-> speed,
     course |-> course, is_dark_ship |-> dark]

NoContribution == [last_update |-> NoTime, measurement_count |-> 0]

\* contributing_sensors: the sensors with a SensorContribution entry
ContributingSensors(track) ==
    {s \in Sensors : track.sensor_contributions[s].measurement_count > 0}

\* sin(course) for the courses along the modelled axis
SinCourse(course) ==
    CASE course = 90 -> 1
      [] course = 270 -> -1
      [] OTHER -> 0

\* _apply_detection_data
ApplyIdentityOnly(track, det, stamp) ==
    IF det.sensor = "ais" /\ det.mmsi # ""
    THEN [track EXCEPT !.identity_source = "ais",
                       !.mmsi = det.mmsi,
                       !.ais_last_seen = stamp]
    ELSE track
\* _apply_detection_data without the identity guard of its satellite branch
ApplySatelliteUnguarded(track, det, stamp) ==
    IF det.sensor = "ais" THEN
        IF det.mmsi # "" THEN
            [track EXCEPT !.identity_source = "ais",
                          !.mmsi = det.mmsi,
                          !.ais_last_seen = stamp,
                          !.is_dark_ship = FALSE,
                          !.dark_ship_confidence = 0,
                          !.flagged_for_review = FALSE,
                          !.alert_reason = ""]
        ELSE track
    ELSE IF det.sensor = "satellite" THEN
        IF det.is_dark_ship THEN
            [track EXCEPT !.is_dark_ship = TRUE,
                          !.dark_ship_confidence =
                              Max(track.dark_ship_confidence, SatelliteDarkConfidence)]
        ELSE track
    ELSE track

ApplyDetectionData(track, det, stamp) ==
    IF det.sensor = "ais" THEN
        IF det.mmsi # "" THEN
            [track EXCEPT !.identity_source = "ais",
                          !.mmsi = det.mmsi,
                          !.ais_last_seen = stamp,
                          !.is_dark_ship = FALSE,
                          !.dark_ship_confidence = 0,
                          !.flagged_for_review = FALSE,
                          !.alert_reason = ""]
        ELSE track
    ELSE IF det.sensor = "satellite" THEN
        IF det.is_dark_ship /\ track.identity_source # "ais" THEN
            [track EXCEPT !.is_dark_ship = TRUE,
                          !.dark_ship_confidence =
                              Max(track.dark_ship_confidence, SatelliteDarkConfidence)]
        ELSE track
    ELSE track

\* _update_velocity: velocity_east_ms in 1e-4 m/s (0.5144 m/s per knot)
UpdateVelocity(track, det) ==
    IF det.speed_knots # 0 /\ det.course # 0 THEN
        [track EXCEPT !.speed_knots = det.speed_knots,
                      !.course = det.course,
                      !.velocity_east = det.speed_knots * 5144 * SinCourse(det.course)]
    ELSE track

\* a status update that confirms a tentative track on any update
UpdateTrackStatusEager(track) ==
    IF track.status \in {"tentative", "coasting"}
    THEN [track EXCEPT !.status = "confirmed"] ELSE track

\* _update_track_status
UpdateTrackStatus(track) ==
    IF track.status = "tentative" THEN
        IF track.update_count >= TentativeToConfirmedUpdates
        THEN [track EXCEPT !.status = "confirmed"] ELSE track
    ELSE IF track.status = "coasting" THEN [track EXCEPT !.status = "confirmed"]
    ELSE track

\* create_track: the clock read of create_track is `stamp`
CreateTrack(det, stamp) ==
    LET fresh == [status |-> "tentative",
                  latitude |-> det.pos,
                  speed_knots |-> det.speed_knots,
                  course |-> det.course,
                  prec |-> SensorWeight(det.sensor),
                  velocity_east |-> 0,
                  identity_source |-> "unknown",
                  mmsi |-> "",
                  is_dark_ship |-> FALSE,
                  dark_ship_confidence |-> 0,
                  ais_last_seen |-> NoTime,
                  ais_gap_seconds |-> NoGap,
                  sensor_contributions |-> [s \in Sensors |-> NoContribution],
                  update_count |-> 0,
                  updated_at |-> stamp,
                  flagged_for_review |-> FALSE,
                  alert_reason |-> ""]
        applied == ApplyDetectionData(fresh, det, stamp)
    IN [applied EXCEPT
            !.sensor_contributions[det.sensor] =
                [last_update |-> stamp, measurement_count |-> 1],
            !.update_count = 1]

\* Inverse-variance position fusion of update_track:
\* (lat*w_t + det*w_d) / (w_t + w_d) = lat + (det - lat) * w_d / (w_t + w_d)
FusePosition(track, det) ==
    IF det.pos = NaN \/ track.latitude = NaN THEN NaN
    ELSE track.latitude
           + TruncDiv((det.pos - track.latitude) * SensorWeight(det.sensor),
                      track.prec + SensorWeight(det.sensor))

\* the mean of the two weights in the place of their sum
FusePrecisionMean(track, det) == (track.prec + SensorWeight(det.sensor)) \div 2

\* 1/sqrt(total_weight), as the inverse variance total_weight
FusePrecision(track, det) == track.prec + SensorWeight(det.sensor)

\* update_track: the clock read of update_track is `stamp`
UpdateTrack(track, det, stamp) ==
    LET fused == [track EXCEPT !.latitude = FusePosition(track, det),
                               !.prec = FusePrecision(track, det)]
        moved == UpdateVelocity(fused, det)
        applied == ApplyDetectionData(moved, det, stamp)
        old == applied.sensor_contributions[det.sensor]
        counted == [applied EXCEPT
                       !.sensor_contributions[det.sensor] =
                           [last_update |-> stamp,
                            measurement_count |-> old.measurement_count + 1],
                       !.updated_at = stamp,
                       !.update_count = track.update_count + 1]
    IN UpdateTrackStatus(counted)

\* ------------------------------------------------------------------------
\* Correlation engine
\* ------------------------------------------------------------------------

\* _predict_position: constant-velocity extrapolation, dt clamped to
\* max_time_delta_s; velocity in 1e-4 m/s, position in units of 10 m
PredictPosition(track, now) ==
    LET dt == Min(now - track.updated_at, MaxTimeDeltaS)
    IN IF track.latitude = NaN THEN NaN
       ELSE track.latitude + TruncDiv(track.velocity_east * dt, 100000)

\* _haversine_m along the modelled axis, in metres
HaversineM(p, q) == IF p = NaN \/ q = NaN THEN NaN ELSE 10 * Abs(p - q)

\* track.position_uncertainty_m ** 2, in m^2, from the inverse variance
TrackVarianceM2(track) == 100000000 \div track.prec

\* distance_m < _calculate_gate_size(track sigma, sensor sigma), where
\* gate = min(max_distance_m, max(min_distance_m, sigma_multiplier * combined)):
\* d < multiplier*sqrt(1e8/prec + s^2) iff d^2 - (multiplier*s)^2 < ceil(multiplier^2*1e8/prec)
InGate(distance_m, track, sensor) ==
    /\ distance_m # NaN
    /\ distance_m < MaxDistanceM
    /\ \/ distance_m < MinDistanceM
       \/ distance_m * distance_m
            - SigmaMultiplier * SigmaMultiplier
                * PositionErrorM(sensor) * PositionErrorM(sensor)
          < CeilDiv(SigmaMultiplier * SigmaMultiplier * 100000000, track.prec)

\* 10 * combined_uncertainty = 10 * sqrt(sigma_track^2 + sigma_sensor^2), metres
CombinedUncertainty10(track, sensor) ==
    LET c == TrackVarianceM2(track) + PositionErrorM(sensor) * PositionErrorM(sensor)
    IN IF c <= 20000000 THEN ISqrt(100 * c) ELSE 10 * ISqrt(c)

\* _kinematic_consistency, in thousandths
KinematicConsistency(track, det) ==
    (IF track.speed_knots # 0 /\ det.speed_knots # 0
     THEN (Abs(track.speed_knots - det.speed_knots) * 1000) \div MaxSpeedChangeKnots
     ELSE 0)
    +
    (IF track.course # 0 /\ det.course # 0
     THEN LET diff == Abs(track.course - det.course)
          IN (Min(diff, 360 - diff) * 1000) \div MaxCourseChangeDeg
     ELSE 0)

\* correlate_detection against the single track {track_id: track}: the
\* confidence max(0, min(1, 1 - score/10)) in 1e-4, 0 when out of the gate
CorrelateDetection(det, track, now) ==
    LET d == HaversineM(det.pos, PredictPosition(track, now))
    IN IF ~InGate(d, track, det.sensor) THEN 0
       ELSE LET score == (IF d = 0 THEN 0
                           ELSE (d * 10000) \div CombinedUncertainty10(track, det.sensor))
                          + KinematicConsistency(track, det)
            IN Max(0, Min(10000, 10000 - score))

\* get_active_tracks: ids of the non-dropped tracks, in dict order
ActiveIdsAll(tracks) == {i \in 1..Len(tracks) : TRUE}
ActiveIds(tracks) == {i \in 1..Len(tracks) : tracks[i].status # "dropped"}

\* mmsi_to_track[m] of batch_correlate phase 1: the dict is filled in track
\* order, so the last alive track carrying m wins; 0 when m is not bound
MmsiToTrack(tracks, m) ==
    LET c == {i \in ActiveIds(tracks) : tracks[i].mmsi # "" /\ tracks[i].mmsi = m}
    IN IF c = {} THEN 0 ELSE CHOOSE i \in c : \A j \in c : j <= i

\* Phase 1 of batch_correlate: the track each detection is pinned to (0: none)
PhaseOneNone(dets, tracks) == [i \in 1..Len(dets) |-> 0]
PhaseOne(dets, tracks) ==
    [i \in 1..Len(dets) |->
        IF dets[i].mmsi # "" THEN MmsiToTrack(tracks, dets[i].mmsi) ELSE 0]

\* remaining_detections of batch_correlate: the indices phase 1 did not pin
RemainingAll(dets, tracks) == 1..Len(dets)
Remaining(dets, tracks) ==
    {i \in 1..Len(dets) : PhaseOne(dets, tracks)[i] = 0}

RECURSIVE SumOver(_, _)
SumOver(f, S) ==
    IF S = {} THEN 0
    ELSE LET x == CHOOSE y \in S : TRUE IN f[x] + SumOver(f, S \ {x})

\* a cost matrix whose track columns ignore the gate
TrackCostUngated(det, track, now) == 0

\* cost_matrix[i, j] for a track column: 1 - confidence when confidence > 0
\* (-1 stands for the 1e6 of an unassignable pair)
TrackCost(det, track, now) ==
    LET conf == CorrelateDetection(det, track, now)
    IN IF conf > 0 THEN 10000 - conf ELSE -1

\* cost_matrix of batch_correlate, rows: the remaining detections, columns:
\* the tracks and, as column 0, the row's own new-track column
CostMatrix(dets, tracks, now, rows) ==
    [i \in rows |->
        [j \in ActiveIds(tracks) \cup {0} |->
            IF j = 0 THEN NewTrackCost ELSE TrackCost(dets[i], tracks[j], now)]]

\* an assignment that lets several rows share one track column
PhaseTwoShared(cost, rows, cols) ==
    LET feasible == {f \in [rows -> cols \cup {0}] :
                        \A i \in rows : cost[i][f[i]] >= 0}
        total == [f \in feasible |-> SumOver([i \in rows |-> cost[i][f[i]]], rows)]
    IN {f \in feasible : \A g \in feasible : total[f] <= total[g]}

\* Phase 2 of batch_correlate: the minimum-cost assignments of the remaining
\* detections (rows) to track columns or to their own new-track column (0).
\* Every other entry of the matrix is 1e6 and the all-new assignment costs
\* NewTrackCost per row, so no optimum uses a 1e6 entry.  linear_sum_assignment
\* returns one optimum; which one among equal-cost optima is not specified.
PhaseTwo(cost, rows, cols) ==
    LET feasible == {f \in [rows -> cols \cup {0}] :
                        /\ \A i \in rows : cost[i][f[i]] >= 0
                        /\ \A i, k \in rows : (i # k /\ f[i] # 0) => f[i] # f[k]}
        total == [f \in feasible |-> SumOver([i \in rows |-> cost[i][f[i]]], rows)]
    IN {f \in feasible : \A g \in feasible : total[f] <= total[g]}

\* batch_correlate: the possible results, each a function from the index of a
\* detection to [track (0 for NEW), confidence in 1e-4, phase]
BatchCorrelate(dets, tracks, now) ==
    LET pinned == PhaseOne(dets, tracks)
        rows == Remaining(dets, tracks)
        cost == CostMatrix(dets, tracks, now, rows)
    IN {[i \in 1..Len(dets) |->
            IF pinned[i] # 0
            THEN [track |-> pinned[i], confidence |-> 10000, phase |-> 1]
            ELSE [track |-> f[i],
                  confidence |-> IF f[i] = 0 THEN 0 ELSE 10000 - cost[i][f[i]],
                  phase |-> 2]]
        : f \in PhaseTwo(cost, rows, ActiveIds(tracks))}

\* The results dict of batch_correlate as the code fills it: for every track
\* id and for NEW (key 0) the list of detection indices, the phase 1 entries
\* appended first, then the entries of the phase 2 assignment
ResultBuckets(dets, tracks, now) ==
    LET pinned == PhaseOne(dets, tracks)
        rows == Remaining(dets, tracks)
        cost == CostMatrix(dets, tracks, now, rows)
        indices == [i \in 1..Len(dets) |-> i]
        PhaseOneList(k) == SelectSeq(indices, LAMBDA i : k # 0 /\ pinned[i] = k)
    IN {[k \in ActiveIds(tracks) \cup {0} |->
            PhaseOneList(k) \o SelectSeq(indices, LAMBDA i : i \in rows /\ f[i] = k)]
        : f \in PhaseTwo(cost, rows, ActiveIds(tracks))}

\* ------------------------------------------------------------------------
\* Track manager: dark-ship check and age step
\* ------------------------------------------------------------------------

\* _has_recent_non_ais_updates
HasRecentNonAisUpdates(track, now, threshold_s) ==
    \E s \in Sensors \ {"ais"} :
        /\ track.sensor_contributions[s].measurement_count > 0
        /\ now - track.sensor_contributions[s].last_update < threshold_s

\* a dark confidence that leaves out the satellite contribution
CalculateDarkConfidenceNoSatellite(track) ==
    Min(100,
        BaseDarkConfidence
        + (IF "radar" \in ContributingSensors(track)
              /\ track.sensor_contributions["radar"].measurement_count
                   >= MinRadarCorrelations
           THEN RadarConfidenceBoost ELSE 0)
        + (IF "drone" \in ContributingSensors(track)
           THEN DroneConfidenceBoost ELSE 0))

\* _calculate_dark_confidence, in hundredths
CalculateDarkConfidence(track) ==
    Min(100,
        BaseDarkConfidence
        + (IF "radar" \in ContributingSensors(track)
              /\ track.sensor_contributions["radar"].measurement_count
                   >= MinRadarCorrelations
           THEN RadarConfidenceBoost ELSE 0)
        + (IF "satellite" \in ContributingSensors(track)
           THEN SatelliteConfidenceBoost ELSE 0)
        + (IF "drone" \in ContributingSensors(track)
           THEN DroneConfidenceBoost ELSE 0))

\* The AIS-gap rule of check_dark_ships, for a track with identity_source = ais
CheckAisGap(track, now) ==
    LET gap == now - track.ais_last_seen
        timed == [track EXCEPT !.ais_gap_seconds = gap]
    IN IF /\ gap > AisGapThresholdS
          /\ HasRecentNonAisUpdates(track, now, RecentNonAisS)
          /\ ~track.is_dark_ship
       THEN [timed EXCEPT !.is_dark_ship = TRUE,
                          !.dark_ship_confidence = Min(100, (gap * 100) \div 3600),
                          !.flagged_for_review = TRUE,
                          !.alert_reason = "AIS gap"]
       ELSE timed

\* The multi-sensor rule of check_dark_ships, for identity_source = unknown
CheckMultiSensor(track) ==
    LET non_ais_sensors == ContributingSensors(track) \ {"ais"}
    IN IF /\ (Cardinality(non_ais_sensors) >= 2 \/ "drone" \in non_ais_sensors)
          /\ ~track.is_dark_ship
       THEN LET c == CalculateDarkConfidence(track)
                dark == [track EXCEPT !.is_dark_ship = TRUE,
                                      !.dark_ship_confidence = c]
            IN IF c >= DarkShipAlertThreshold
               THEN [dark EXCEPT !.flagged_for_review = TRUE,
                                 !.alert_reason = "Dark ship"]
               ELSE dark
       ELSE track

\* The body of check_dark_ships' loop for one non-dropped track
CheckDarkShip(track, now) ==
    IF track.identity_source = "ais" /\ track.ais_last_seen # NoTime
    THEN CheckAisGap(track, now)
    ELSE IF track.identity_source = "unknown" THEN CheckMultiSensor(track)
    ELSE track

\* check_dark_ships
CheckDarkShips(tracks, now) ==
    [i \in 1..Len(tracks) |->
        IF tracks[i].status = "dropped" THEN tracks[i]
        ELSE CheckDarkShip(tracks[i], now)]

\* an age step that grows the uncertainty of a coasting track on every call
AgeTrackEveryCall(track, now) ==
    LET time_since_update == now - track.updated_at
    IN IF time_since_update > DropTimeoutS
       THEN [track EXCEPT !.status = "dropped"]
       ELSE IF time_since_update > CoastingTimeoutS
       THEN [track EXCEPT
                !.status = "coasting",
                !.prec = Max(100000000 \div (MaxPositionUncertaintyM
                                               * MaxPositionUncertaintyM),
                             (track.prec * 4) \div 9)]
       ELSE track

\* The body of age_tracks' loop for one non-dropped track;
\* min(5000, 1.5 * sigma) as the inverse variance max(1e8/5000^2, prec/2.25)
AgeTrack(track, now) ==
    LET time_since_update == now - track.updated_at
    IN IF time_since_update > DropTimeoutS
       THEN [track EXCEPT !.status = "dropped"]
       ELSE IF time_since_update > CoastingTimeoutS /\ track.status # "coasting"
       THEN [track EXCEPT
                !.status = "coasting",
                !.prec = Max(100000000 \div (MaxPositionUncertaintyM
                                               * MaxPositionUncertaintyM),
                             (track.prec * 4) \div 9)]
       ELSE track

\* age_tracks
AgeTracks(tracks, now) ==
    [i \in 1..Len(tracks) |->
        IF tracks[i].status = "dropped" THEN tracks[i]
        ELSE AgeTrack(tracks[i], now)]

\* ------------------------------------------------------------------------
\* Fusion runner
\* ------------------------------------------------------------------------

RECURSIVE SetToSeq(_)
\* the elements of a set of naturals in increasing order
SetToSeq(S) ==
    IF S = {} THEN << >>
    ELSE LET x == CHOOSE y \in S : \A z \in S : y <= z
         IN <<x>> \o SetToSeq(S \ {x})

RECURSIVE ApplyUpdates(_, _, _, _)
\* update_track for each detection assigned to one track, in list order
ApplyUpdates(track, dets, order, stamp) ==
    IF order = << >> THEN track
    ELSE ApplyUpdates(UpdateTrack(track, dets[Head(order)], stamp),
                      dets, Tail(order), stamp)

\* The detections of results[track_id], in the order batch_correlate appended
\* them: those pinned in phase 1, then the one assigned in phase 2
AssignedOrder(asg, id) ==
    SetToSeq({i \in DOMAIN asg : asg[i].track = id /\ asg[i].phase = 1})
      \o SetToSeq({i \in DOMAIN asg : asg[i].track = id /\ asg[i].phase = 2})

\* process_batch, the loop over the assignments: update_track for the
\* detections of each track, create_track for those of NEW; `stamp` is the
\* clock read of create_track and update_track
ApplyAssignments(tracks, dets, stamp, asg) ==
    LET news == SetToSeq({i \in DOMAIN asg : asg[i].track = 0})
    IN [i \in 1..Len(tracks) |->
           ApplyUpdates(tracks[i], dets, AssignedOrder(asg, i), stamp)]
       \o [k \in 1..Len(news) |-> CreateTrack(dets[news[k]], stamp)]

\* get_dark_ships
DarkShips(tracks) ==
    {i \in 1..Len(tracks) : tracks[i].is_dark_ship /\ tracks[i].status # "dropped"}

\* publish_tracks: the alerts appended to fusion:dark_ships
Alerts(tracks) ==
    LET ids == SetToSeq({i \in DarkShips(tracks) : tracks[i].flagged_for_review})
    IN [k \in 1..Len(ids) |->
           [track_id |-> ids[k],
            confidence |-> tracks[ids[k]].dark_ship_confidence,
            alert_reason |-> tracks[ids[k]].alert_reason,
            detected_by |-> ContributingSensors(tracks[ids[k]])]]

\* publish_tracks: the flags cleared after publishing
ClearFlagsNever(tracks) == tracks
ClearFlags(tracks) ==
    [i \in 1..Len(tracks) |->
        IF i \in DarkShips(tracks) /\ tracks[i].flagged_for_review
        THEN [tracks[i] EXCEPT !.flagged_for_review = FALSE]
        ELSE tracks[i]]

\* publish_tracks: fusion:active_tracks is deleted and rebuilt only when
\* there is an active track
PublishActive(tracks, old) ==
    IF ActiveIds(tracks) # {} THEN ActiveIds(tracks) ELSE old

\* ------------------------------------------------------------------------
\* State
\* ------------------------------------------------------------------------

VARIABLES
    clock,          \* wall clock, seconds
    tracks,         \* TrackManager.tracks, in insertion order; the id is the index
    darkStream,     \* the stream fusion:dark_ships
    activeTracks,   \* the set fusion:active_tracks
    ticks,          \* cycle_count of the run loop
    lastNow,        \* `now` of the last process_batch (NoTime before the first)
    lastBatch,      \* the detections parsed from the messages of the last tick
    lastAssign,     \* the batch_correlate result of the last tick
    history,        \* per track: what check_dark_ships and age_tracks did to it
    fleet,          \* Fleet Store: ais_enabled of each ship hash
    world,          \* WorldSimulator.run: position in the loop and its `ships`
    ingester,       \* AISNMEAIngester._process_unified: the ships still to visit
    aisStream,      \* the stream ais:positions
    vessel,         \* the observed vessel of the blackout scenario
    bus,            \* the input streams, their consumer group, fusion:status
    runner,         \* FusionIngester.run: position, flags and counters
    speeds          \* Fleet Store: vessel_type and speed of each ship hash

fusionVars == <<clock, tracks, darkStream, activeTracks, ticks, lastNow,
                lastBatch, lastAssign, history>>

worldVars == <<fleet, world, ingester, aisStream, speeds>>

vars == <<clock, tracks, darkStream, activeTracks, ticks, lastNow, lastBatch,
          lastAssign, history, fleet, world, ingester, aisStream, vessel,
          bus, runner, speeds>>

\* ------------------------------------------------------------------------
\* Bounds of the model
\* ------------------------------------------------------------------------

MaxTracks == 3
MaxTicks == 3
MaxClock == 901

\* seconds between the clock reads of two successive ticks
TickGaps == {0, 901}
\* seconds between process_batch's clock read and that of update_track
ClockLags == {0}

\* the batches of at most one message over a set of detections
Singles(dom) == {<< >>} \cup {<<d>> : d \in dom}

\* ------------------------------------------------------------------------
\* Fusion runner: one iteration of run's loop
\* ------------------------------------------------------------------------

NoHistory == [dark_marks |-> 0, dark_tick |-> 0, flag_marks |-> 0, drop_tick |-> 0]

\* history after a process_batch: dark_marks and flag_marks count the times
\* check_dark_ships set is_dark_ship and flagged_for_review on the track,
\* dark_tick is the tick of the last time it set is_dark_ship, drop_tick
\* the tick in which age_tracks dropped the track (0: never)
Record(old, applied, checked, aged, tick) ==
    [i \in 1..Len(aged) |->
        LET h == IF i <= Len(old) THEN old[i] ELSE NoHistory
        IN [dark_marks |-> h.dark_marks
                + (IF ~applied[i].is_dark_ship /\ checked[i].is_dark_ship
                   THEN 1 ELSE 0),
            dark_tick |-> IF ~applied[i].is_dark_ship /\ checked[i].is_dark_ship
                          THEN tick ELSE h.dark_tick,
            flag_marks |-> h.flag_marks
                + (IF ~applied[i].flagged_for_review /\ checked[i].flagged_for_review
                   THEN 1 ELSE 0),
            drop_tick |-> IF checked[i].status # "dropped" /\ aged[i].status = "dropped"
                          THEN tick ELSE h.drop_tick]]

\* publish_tracks on the tracks `current`
Publish(current) ==
    /\ darkStream' = darkStream \o Alerts(current)
    /\ tracks' = ClearFlags(current)
    /\ activeTracks' = PublishActive(current, activeTracks)

\* process_batch (`now`: its clock read) followed by publish_tracks
ProcessAndPublish(batch, now, stamp, asg) ==
    LET applied == ApplyAssignments(tracks, batch, stamp, asg)
        checked == CheckDarkShips(applied, now)
        aged == AgeTracks(checked, now)
    IN /\ Len(applied) <= MaxTracks
       /\ history' = Record(history, applied, checked, aged, ticks + 1)
       /\ Publish(aged)

\* One iteration of run's loop: read_all_streams returned the messages parsed
\* to `batch`; process_batch when there are messages; publish_tracks;
\* update_status.  gap: seconds since the previous iteration's clock reads.
RunTick(gap, lag, batch) ==
    /\ ticks' = ticks + 1
    /\ lastBatch' = batch
    /\ IF batch = << >>
       THEN /\ clock' = clock + gap
            /\ lastAssign' = << >>
            /\ Publish(tracks)
            /\ UNCHANGED <<lastNow, history>>
       ELSE /\ clock' = clock + gap + lag
            /\ lastNow' = clock + gap
            /\ \E asg \in BatchCorrelate(batch, tracks, clock + gap) :
                  /\ lastAssign' = asg
                  /\ ProcessAndPublish(batch, clock + gap, clock + gap + lag, asg)

InitFusion ==
    /\ clock = 0
    /\ tracks = << >>
    /\ darkStream = << >>
    /\ activeTracks = {}
    /\ ticks = 0
    /\ lastNow = NoTime
    /\ lastBatch = << >>
    /\ lastAssign = << >>
    /\ history = << >>

\* The bus before any message and the runner before run() is called.
\* bus: stream is the input streams read as one sequence, each entry with
\* the number of times process_batch applied it; delivered is the last entry
\* the consumer group has delivered; pending is its pending-entries list;
\* status is the field running of fusion:status ("" before the first write).
\* runner: pc is the call run() is in; messages the entries of the last read
\* and ackpos the position of the xack loop in them; pipeline the alerts
\* queued by publish_tracks; errors is stats["errors"].  The other fields
\* record what happened: starts counts run() calls, faults the errors raised
\* by store calls, clean is FALSE once a call raised in this run, signal is
\* the termination signal received, tick_open holds from the read of an
\* iteration to its status write, processed are the entries process_batch
\* applied in this iteration, cleared counts the alert flags publish_tracks
\* cleared, read_ok tells whether the last read returned without an error.
InitRunner ==
    /\ bus = [stream |-> << >>, delivered |-> 0, pending |-> {}, status |-> ""]
    /\ runner = [pc |-> "stopped", running |-> FALSE, messages |-> << >>,
                 ackpos |-> 1, pipeline |-> << >>, errors |-> 0, starts |-> 0,
                 faults |-> 0, clean |-> TRUE, signal |-> "none",
                 tick_open |-> FALSE, processed |-> {}, cleared |-> 0,
                 read_ok |-> FALSE, raised |-> FALSE]

\* ------------------------------------------------------------------------
\* World simulator and AIS ingester on the Fleet Store
\* ------------------------------------------------------------------------

Ships == {"A", "B"}

MaxWorldUpdates == 2
MaxAisCycles == 2

\* get_all_ships, as the sequence of [mmsi, ais_enabled] read from the store
GetAllShips(store) ==
    <<[mmsi |-> "A", ais_enabled |-> store["A"]],
      [mmsi |-> "B", ais_enabled |-> store["B"]]>>

\* a fleet of cargo vessels at 10 knots; speed is kept in half knots
CargoFleet == [m \in Ships |-> [vessel_type |-> "cargo", speed |-> 20]]

InitWorld ==
    /\ fleet \in [Ships -> BOOLEAN]
    /\ speeds = CargoFleet
    /\ world = [pc |-> "sleep", ships |-> << >>, updates |-> 0]
    /\ ingester = [ships |-> << >>, cycles |-> 0]
    /\ aisStream = << >>

\* WorldSimulator.run: ships = await self.fleet.get_all_ships()
WorldRead ==
    /\ world.pc = "sleep"
    /\ world.updates < MaxWorldUpdates
    /\ world' = [world EXCEPT !.pc = "move", !.ships = GetAllShips(fleet)]
    /\ UNCHANGED <<fleet, ingester, aisStream>>

\* WorldSimulator.run: the loop toggling ais_enabled of the ships in
\* `toggled`, then update_ships_batch(ships), one pipeline
WorldUpdate(toggled) ==
    /\ world.pc = "move"
    /\ fleet' = [m \in Ships |->
                    LET ship == CHOOSE sh \in {world.ships[k] : k \in DOMAIN world.ships} :
                                    sh.mmsi = m
                    IN IF m \in toggled THEN ~ship.ais_enabled ELSE ship.ais_enabled]
    /\ world' = [pc |-> "sleep", ships |-> << >>, updates |-> world.updates + 1]
    /\ UNCHANGED <<ingester, aisStream>>

\* _process_unified: ships = await self.fleet_manager.get_all_ships()
AisRead ==
    /\ ingester.ships = << >>
    /\ ingester.cycles < MaxAisCycles
    /\ ingester' = [ships |-> GetAllShips(fleet), cycles |-> ingester.cycles + 1]
    /\ UNCHANGED <<fleet, world, aisStream>>

\* _process_unified: one iteration of `for ship in ships`; transmitted: the
\* draws of the transmission rate and of the packet loss let the report out.
\* The stream entry also records ais_enabled of the ship hash at the time of
\* the append.
AisVisit(transmitted) ==
    /\ ingester.ships # << >>
    /\ LET ship == Head(ingester.ships)
       IN aisStream' =
            IF ship.ais_enabled /\ transmitted
            THEN Append(aisStream, [mmsi |-> ship.mmsi, ais_on |-> fleet[ship.mmsi]])
            ELSE aisStream
    /\ ingester' = [ingester EXCEPT !.ships = Tail(ingester.ships)]
    /\ UNCHANGED <<fleet, world>>

\* ------------------------------------------------------------------------
\* Spec: the fusion runner fed co-located contacts of every sensor kind
\* ------------------------------------------------------------------------

StillVessel == [speed_knots |-> 0, ais_on |-> TRUE, radar_from |-> 0]

DarkDets ==
    {Detection("ais", m, 0, 0, 0, FALSE) : m \in {"", "A"}}
    \cup {Detection("radar", "", 0, 0, 0, FALSE)}
    \cup {Detection("satellite", "", 0, 0, 0, TRUE)}
    \cup {Detection("drone", "", 0, 0, 0, FALSE)}

DarkBatches ==
    Singles(DarkDets)
    \cup {<<Detection("radar", "", 0, 0, 0, FALSE),
            Detection("radar", "", 0, 0, 0, FALSE)>>,
          <<Detection("drone", "", 0, 0, 0, FALSE),
            Detection("satellite", "", 0, 0, 0, TRUE)>>}

Init ==
    /\ InitFusion
    /\ InitWorld
    /\ InitRunner
    /\ fleet = [m \in Ships |-> TRUE]
    /\ vessel = StillVessel

Tick ==
    /\ ticks < MaxTicks
    /\ \E gap \in TickGaps, lag \in ClockLags, batch \in DarkBatches :
          /\ clock + gap + lag <= MaxClock
          /\ RunTick(gap, lag, batch)
    /\ UNCHANGED <<fleet, world, ingester, aisStream, vessel, bus, runner, speeds>>

Next == Tick

Spec == Init /\ [][Next]_vars

\* ------------------------------------------------------------------------
\* SpecPin: the fusion runner fed the AIS reports of two vessels A and B
\* that come close to each other and cross
\* ------------------------------------------------------------------------

\* positions in units of 10 m: 300 m apart
PinPositions == {0, 30}

PinGaps == {1, 601}

PinDets == {Detection("ais", m, x, 0, 0, FALSE) : m \in {"A", "B"}, x \in PinPositions}

\* a report of A alone, or a report of A with a second report
PinBatches ==
    {<<d>> : d \in {e \in PinDets : e.mmsi = "A"}}
    \cup {<<d, e>> : d \in {e \in PinDets : e.mmsi = "A"}, e \in PinDets}

TickPin ==
    /\ ticks < MaxTicks
    /\ \E gap \in PinGaps, batch \in PinBatches :
          /\ clock + gap <= MaxClock
          /\ RunTick(gap, 0, batch)
    /\ UNCHANGED <<fleet, world, ingester, aisStream, vessel, bus, runner, speeds>>

NextPin == TickPin

SpecPin == Init /\ [][NextPin]_vars

\* ------------------------------------------------------------------------
\* SpecBlackout: one vessel under way on course 090, reported by AIS at
\* every tick until its AIS goes off, and by radar at every tick from the
\* time it enters radar coverage
\* ------------------------------------------------------------------------

BlackoutSpeeds == {2, 10}
\* radar coverage from the first AIS report on, or from the tick after it
BlackoutRadarFrom == {30, 60}
BlackoutGaps == {30}
BlackoutEnd == 1020
MaxAisOffClock == 60

\* Ship.move along the modelled axis: speed * seconds / 3600 nautical miles,
\* in units of 10 m (0.5144 m/s per knot)
VesselPosition(t) == (vessel.speed_knots * 5144 * t) \div 100000

\* what the AIS and radar ingesters emit for the vessel at time t: the AIS
\* report only while ais_on (it carries no course), the radar contact while
\* in coverage
BlackoutBatch(t) ==
    (IF vessel.ais_on
     THEN <<Detection("ais", "A", VesselPosition(t), vessel.speed_knots, 0, FALSE)>>
     ELSE << >>)
    \o (IF t >= vessel.radar_from
        THEN <<Detection("radar", "", VesselPosition(t), vessel.speed_knots, 90, FALSE)>>
        ELSE << >>)

InitBlackout ==
    /\ InitFusion
    /\ InitWorld
    /\ InitRunner
    /\ fleet = [m \in Ships |-> TRUE]
    /\ vessel \in {[speed_knots |-> v, ais_on |-> TRUE, radar_from |-> r] :
                        v \in BlackoutSpeeds, r \in BlackoutRadarFrom}

TickBlackout ==
    /\ \E gap \in BlackoutGaps :
          /\ clock + gap <= BlackoutEnd
          /\ RunTick(gap, 0, BlackoutBatch(clock + gap))
    /\ UNCHANGED <<fleet, world, ingester, aisStream, vessel, bus, runner, speeds>>

\* the world simulator toggles the vessel's ais_enabled off
AisOff ==
    /\ vessel.ais_on
    /\ ticks >= 1
    /\ clock <= MaxAisOffClock
    /\ vessel' = [vessel EXCEPT !.ais_on = FALSE]
    /\ UNCHANGED <<fusionVars, worldVars, bus, runner>>

NextBlackout == TickBlackout \/ AisOff

SpecBlackout == InitBlackout /\ [][NextBlackout]_vars

\* ------------------------------------------------------------------------
\* SpecAis: the world simulator and the AIS ingester, interleaved at their
\* awaits
\* ------------------------------------------------------------------------

InitAis ==
    /\ InitFusion
    /\ InitWorld
    /\ InitRunner
    /\ vessel = StillVessel

WorldToggle == \E toggled \in SUBSET Ships : WorldUpdate(toggled)

AisStep == \E transmitted \in BOOLEAN : AisVisit(transmitted)

NextAis ==
    \/ WorldRead /\ UNCHANGED <<fusionVars, vessel, bus, runner, speeds>>
    \/ WorldToggle /\ UNCHANGED <<fusionVars, vessel, bus, runner, speeds>>
    \/ AisRead /\ UNCHANGED <<fusionVars, vessel, bus, runner, speeds>>
    \/ AisStep /\ UNCHANGED <<fusionVars, vessel, bus, runner, speeds>>

SpecAis == InitAis /\ [][NextAis]_vars

\* ------------------------------------------------------------------------
\* Properties of the fusion runner under Spec
\* ------------------------------------------------------------------------

\* the alerts for track i on fusion:dark_ships
AlertsFor(i) ==
    Cardinality({k \in 1..Len(darkStream) : darkStream[k].track_id = i})

\* an AIS observation of the batch was applied to track i under asg
\* (with_mmsi: one that carries an mmsi)
AisAppliedTo(batch, asg, i, with_mmsi) ==
    \E k \in DOMAIN asg :
        /\ asg[k].track = i
        /\ batch[k].sensor = "ais"
        /\ with_mmsi => batch[k].mmsi # ""

Cleared(track) ==
    /\ ~track.is_dark_ship
    /\ track.dark_ship_confidence = 0
    /\ ~track.flagged_for_review
    /\ track.alert_reason = ""

C2_AnyAisObservationClears ==
    [][\A i \in 1..Len(tracks) :
          (/\ tracks[i].is_dark_ship
           /\ tracks[i].alert_reason = "AIS gap"
           /\ AisAppliedTo(lastBatch', lastAssign', i, FALSE))
          => Cleared(tracks'[i])]_vars

\* C2: an AIS observation that carries an mmsi, applied to a track marked
\* dark by the AIS-gap rule, leaves is_dark_ship false, dark_ship_confidence
\* 0, flagged_for_review false and alert_reason empty at the end of the tick
\* (after check_dark_ships).
C2_AisWithMmsiClears ==
    [][\A i \in 1..Len(tracks) :
          (/\ tracks[i].is_dark_ship
           /\ tracks[i].alert_reason = "AIS gap"
           /\ AisAppliedTo(lastBatch', lastAssign', i, TRUE))
          => Cleared(tracks'[i])]_vars

\* a track seen by AIS and radar only, marked dark once (so by the AIS-gap
\* rule), and cleared by the AIS observation of the last tick
C2_Witness ==
    \E i \in 1..Len(tracks) :
        /\ i \in DOMAIN history
        /\ history[i].dark_marks = 1
        /\ ContributingSensors(tracks[i]) = {"ais", "radar"}
        /\ AisAppliedTo(lastBatch, lastAssign, i, TRUE)
        /\ Cleared(tracks[i])

\* C4: a tick changes no field of a track whose status is dropped.
C4_DroppedNeverMutated ==
    [][\A i \in 1..Len(tracks) :
          tracks[i].status = "dropped"
          => (i <= Len(tracks') /\ tracks'[i] = tracks[i])]_vars

\* a track dropped in an earlier tick, and a later tick that processed a batch
C4_Witness ==
    \E i \in 1..Len(tracks) :
        /\ tracks[i].status = "dropped"
        /\ history[i].drop_tick > 0
        /\ history[i].drop_tick < ticks
        /\ lastBatch # << >>

\* C5 as stated: after every tick, with or without messages, each track
\* without a measurement update for more than drop_timeout_s is dropped.
C5_DroppedAtNextTick ==
    ticks > 0 =>
        \A i \in 1..Len(tracks) :
            clock - tracks[i].updated_at > DropTimeoutS
            => tracks[i].status = "dropped"

\* C7 as stated: a track without AIS contribution that has a drone detection
\* and a satellite detection with is_dark_ship = true (every satellite
\* contact of DarkDets has it) is unknown, dark with confidence >= 0.6 and
\* was flagged for review exactly once.
C7_UnknownDarkShipFlaggedOnce ==
    \A i \in 1..Len(tracks) :
        ({"drone", "satellite"} \subseteq ContributingSensors(tracks[i])
         /\ "ais" \notin ContributingSensors(tracks[i]))
        => /\ tracks[i].identity_source = "unknown"
           /\ tracks[i].is_dark_ship
           /\ tracks[i].dark_ship_confidence >= DarkShipAlertThreshold
           /\ history[i].flag_marks = 1

\* C9 as stated: processing a batch and then an identical, redelivered batch
\* (no time passing in between) leaves the tracks as the first processing
\* left them: same tracks, update_count, measurement_count per sensor,
\* status, position and position uncertainty.
C9_RedeliveryIdempotent ==
    [][(/\ lastBatch # << >>
        /\ lastBatch' = lastBatch
        /\ clock' = clock
        /\ ticks' = ticks + 1)
       => /\ Len(tracks') = Len(tracks)
          /\ \A i \in 1..Len(tracks) :
                /\ tracks'[i].update_count = tracks[i].update_count
                /\ \A sn \in Sensors :
                      tracks'[i].sensor_contributions[sn].measurement_count
                        = tracks[i].sensor_contributions[sn].measurement_count
                /\ tracks'[i].status = tracks[i].status
                /\ tracks'[i].latitude = tracks[i].latitude
                /\ tracks'[i].prec = tracks[i].prec]_vars

\* ------------------------------------------------------------------------
\* Properties of identity pinning under SpecPin
\* ------------------------------------------------------------------------

\* C3 as stated: every observation of a batch that carries the mmsi of an
\* alive track is assigned to that track in phase 1 with confidence 1.0.
C3_PinnedToEveryTrackOfMmsi ==
    [][\A i \in ActiveIds(tracks) : \A k \in DOMAIN lastBatch' :
          (tracks[i].mmsi # "" /\ lastBatch'[k].mmsi = tracks[i].mmsi)
          => lastAssign'[k] = [track |-> i, confidence |-> 10000, phase |-> 1]]_vars

\* C8: in a tick that starts with two alive tracks bound to distinct mmsi,
\* both tracks keep their mmsi, and every observation carrying the mmsi of
\* one of them is applied to a track bound to that mmsi.
C8_NoIdentitySwap ==
    [][\A i, j \in ActiveIds(tracks) :
          (/\ tracks[i].mmsi # ""
           /\ tracks[j].mmsi # ""
           /\ tracks[i].mmsi # tracks[j].mmsi)
          => /\ tracks'[i].mmsi = tracks[i].mmsi
             /\ tracks'[j].mmsi = tracks[j].mmsi
             /\ \A k \in DOMAIN lastBatch' :
                   lastBatch'[k].mmsi = tracks[i].mmsi
                   => /\ lastAssign'[k].track \in ActiveIds(tracks)
                      /\ tracks[lastAssign'[k].track].mmsi = tracks[i].mmsi]_vars

\* the tracks of A and B, created 300 m apart, after a batch in which the two
\* reports have swapped places: both updated, now at the same position
C8_Witness ==
    \E i, j \in 1..Len(tracks) :
        /\ tracks[i].mmsi = "A"
        /\ tracks[j].mmsi = "B"
        /\ tracks[i].update_count >= 2
        /\ tracks[j].update_count >= 2
        /\ tracks[i].latitude = tracks[j].latitude
        /\ Len(lastBatch) = 2
        /\ lastAssign[1].track = i
        /\ lastAssign[2].track = j
        /\ lastBatch[1].pos # lastBatch[2].pos

\* ------------------------------------------------------------------------
\* Properties of the blackout scenario under SpecBlackout
\* ------------------------------------------------------------------------

\* C6 as stated: once AIS is off and process_batch's now - ais_last_seen
\* exceeds ais_gap_threshold_s, the AIS track is dark with an "AIS gap" alert
\* reason and fusion:dark_ships holds exactly one alert, for that track,
\* with radar in detected_by.
C6_BlackoutAlert ==
    \A i \in 1..Len(tracks) :
        (/\ ~vessel.ais_on
         /\ tracks[i].identity_source = "ais"
         /\ lastNow - tracks[i].ais_last_seen > AisGapThresholdS)
        => /\ tracks[i].is_dark_ship
           /\ tracks[i].alert_reason = "AIS gap"
           /\ Len(darkStream) = 1
           /\ darkStream[1].track_id = i
           /\ "radar" \in darkStream[1].detected_by

\* ------------------------------------------------------------------------
\* Properties of the AIS ingester under SpecAis
\* ------------------------------------------------------------------------

\* C10 as stated: no report is appended to ais:positions for a ship whose
\* ais_enabled in the Fleet Store is false at the time of the append.
C10_NoReportWhileAisOff ==
    \A k \in 1..Len(aisStream) : aisStream[k].ais_on

(***************************************************************************)
(* C11: in every reachable state every dark track is either not            *)
(* AIS-identified or has an AIS gap above dark_ais_gap_threshold (900 s);  *)
(* a satellite detection with is_dark_ship never darkens an AIS track.     *)
(***************************************************************************)
C11_DarkImpliesNoAisOrGap ==
    \A i \in 1..Len(tracks) :
        tracks[i].is_dark_ship =>
            \/ tracks[i].identity_source # "ais"
            \/ tracks[i].ais_gap_seconds > AisGapThresholdS

\* An AIS-identified track has just taken a satellite detection that
\* carries is_dark_ship and is not dark
C11_Witness ==
    /\ Len(lastBatch) = 1
    /\ lastBatch[1].sensor = "satellite"
    /\ lastBatch[1].is_dark_ship
    /\ lastAssign[1].track # 0
    /\ tracks[lastAssign[1].track].identity_source = "ais"
    /\ tracks[lastAssign[1].track].sensor_contributions["satellite"].measurement_count > 0
    /\ ~tracks[lastAssign[1].track].is_dark_ship

(***************************************************************************)
(* C12: in every result of batch_correlate each observation of the batch   *)
(* appears in exactly one bucket (one track id or NEW) and exactly once.   *)
(***************************************************************************)
Occurrences(buckets, i) ==
    SumOver([k \in DOMAIN buckets |->
                Len(SelectSeq(buckets[k], LAMBDA x : x = i))],
            DOMAIN buckets)

C12_EachObservationInOneBucket ==
    [][lastBatch' # << >> =>
        \A buckets \in ResultBuckets(lastBatch', tracks, lastNow') :
            \A i \in 1..Len(lastBatch') : Occurrences(buckets, i) = 1]_vars

\* A batch of two whose first report was pinned by its mmsi and whose second
\* went through the assignment of phase 2 onto a track
C12_Witness ==
    /\ Len(lastBatch) = 2
    /\ lastAssign[1].phase = 1
    /\ lastAssign[2].phase = 2
    /\ lastAssign[2].track # 0

\* ------------------------------------------------------------------------
\* SpecGate: the fusion runner fed contacts at the position of a track, at
\* 10.5 km and at 15 km from it, with idle periods that start coasting
\* ------------------------------------------------------------------------

\* positions of GateDets are in units of 10 m
GateGaps == {0, 400}

GateDets ==
    {Detection("radar", "", x, 0, 0, FALSE) : x \in {0, 1500}}
    \cup {Detection("satellite", "", x, 0, 0, FALSE) : x \in {0, 1050}}
    \cup {Detection("ais", "A", x, 0, 0, FALSE) : x \in {0, 1500}}

TickGate ==
    /\ ticks < MaxTicks
    /\ \E gap \in GateGaps, batch \in Singles(GateDets) :
          /\ clock + gap <= MaxClock
          /\ RunTick(gap, 0, batch)
    /\ UNCHANGED <<fleet, world, ingester, aisStream, vessel, bus, runner, speeds>>

NextGate == TickGate

SpecGate == Init /\ [][NextGate]_vars

\* distance_m of correlate_detection between a detection and a track
GateDistanceM(det, track, now) == HaversineM(det.pos, PredictPosition(track, now))

\* The detection is farther than max_distance_m from every track
BeyondMaxGate(det, now) ==
    \A j \in ActiveIds(tracks) : GateDistanceM(det, tracks[j], now) > MaxDistanceM

UpdatesOf(asg, j) == {i \in DOMAIN asg : asg[i].track = j}

AgedWhileIdle(j) ==
    /\ lastBatch' # << >>
    /\ ticks' = ticks + 1
    /\ tracks[j].status # "dropped"
    /\ UpdatesOf(lastAssign', j) = {}
    /\ lastNow' - tracks[j].updated_at > CoastingTimeoutS
    /\ lastNow' - tracks[j].updated_at < DropTimeoutS

\* min(5000, 1.5 * sigma) as an inverse variance
GrownPrecision(prec) == Max(4, (prec * 4) \div 9)

(***************************************************************************)
(* C15 as stated: for every non-dropped track idle for more than           *)
(* coast_timeout and less than drop_timeout, the position uncertainty      *)
(* after age(t) is min(5000, 1.5 x its value before the call).             *)
(***************************************************************************)
C15_EveryAgeStepGrows ==
    [][\A j \in 1..Len(tracks) :
          AgedWhileIdle(j) => tracks'[j].prec = GrownPrecision(tracks[j].prec)]_vars

(***************************************************************************)
(* C15 amended: the age step grows the uncertainty to min(5000, 1.5 x)     *)
(* when it moves the track to coasting; a track that is already coasting   *)
(* keeps its uncertainty.                                                  *)
(***************************************************************************)
C15_GrowsOnEnteringCoasting ==
    [][\A j \in 1..Len(tracks) :
          AgedWhileIdle(j) =>
             /\ tracks'[j].status = "coasting"
             /\ tracks'[j].prec = IF tracks[j].status = "coasting"
                                  THEN tracks[j].prec
                                  ELSE GrownPrecision(tracks[j].prec)]_vars

\* Track 1, made by one radar contact, was idle in the range at two age
\* steps with the same clock read (track 2 was made in the first and updated
\* in the second) and holds the uncertainty of one growth
C15_Witness ==
    /\ Len(tracks) = 2
    /\ tracks[1].status = "coasting"
    /\ tracks[1].update_count = 1
    /\ tracks[1].sensor_contributions["radar"].measurement_count = 1
    /\ lastNow - tracks[1].updated_at > CoastingTimeoutS
    /\ lastNow - tracks[1].updated_at < DropTimeoutS
    /\ tracks[2].update_count = 2
    /\ tracks[2].sensor_contributions["ais"].measurement_count = 1
    /\ tracks[2].sensor_contributions["radar"].measurement_count = 1
    /\ tracks[2].sensor_contributions["ais"].last_update = lastNow
    /\ tracks[2].sensor_contributions["radar"].last_update = lastNow
    /\ tracks[1].prec = GrownPrecision(SensorWeight("radar"))

(***************************************************************************)
(* C16: in every reachable state every track's 1-sigma position            *)
(* uncertainty lies in [100, 5000] metres; as inverse variances in         *)
(* 1e-8 m^-2: between 1e8 / 5000^2 and 1e8 / 100^2.                        *)
(***************************************************************************)
C16_UncertaintyWithinBounds ==
    \A i \in 1..Len(tracks) :
        /\ tracks[i].prec >= 100000000 \div (MaxPositionUncertaintyM
                                              * MaxPositionUncertaintyM)
        /\ tracks[i].prec <= 100000000 \div (MinPositionUncertaintyM
                                              * MinPositionUncertaintyM)

\* ------------------------------------------------------------------------
\* SpecRunner: run() of the fusion ingester call by call on the bus, with
\* producers appending to the input streams, store calls that raise,
\* stop(), task cancellation, and a killed and restarted process
\* ------------------------------------------------------------------------

MaxStream == 2
MaxStarts == 2
MaxFaults == 1

\* What the producers append: a drone detection, a radar contact, and a
\* radar contact whose latitude is not a number (valid = FALSE)
RunnerMessages ==
    {[det |-> Detection("drone", "", 0, 0, 0, FALSE), valid |-> TRUE, applied |-> 0],
     [det |-> Detection("radar", "", 0, 0, 0, FALSE), valid |-> TRUE, applied |-> 0],
     [det |-> Detection("radar", "", 0, 0, 0, FALSE), valid |-> FALSE, applied |-> 0]}

\* parse_detection returns for every message of the list: float() and int()
\* raise on a field that is not a number
ParsesAll(messages) == \A k \in 1..Len(messages) : bus.stream[messages[k]].valid

\* the detections process_batch parses from the messages
ParsedBatch(messages) == [k \in 1..Len(messages) |-> bus.stream[messages[k]].det]

\* the pcs at which run() is suspended in an await
AwaitPcs == {"read", "ack", "execute", "status", "sleep"}

LoopPcs == {"read", "process", "ack", "publish", "execute", "status", "sleep"}

\* a sensor ingester appends a message to its stream
Produce ==
    /\ Len(bus.stream) < MaxStream
    /\ \E msg \in RunnerMessages : bus' = [bus EXCEPT !.stream = Append(@, msg)]
    /\ UNCHANGED <<fusionVars, worldVars, vessel, runner>>

\* A process is started: FusionIngester.__init__ (a new TrackManager, zeroed
\* stats) and run() up to the loop; setup_consumer_groups creates the group
\* at id 0 the first time and leaves it as it is afterwards
Start ==
    /\ runner.pc \in {"stopped", "exited"}
    /\ runner.starts < MaxStarts
    /\ runner' = [runner EXCEPT !.pc = "read", !.running = TRUE,
                                !.messages = << >>, !.ackpos = 1,
                                !.pipeline = << >>, !.errors = 0,
                                !.starts = @ + 1, !.clean = TRUE,
                                !.signal = "none", !.tick_open = FALSE,
                                !.processed = {}, !.read_ok = FALSE,
                                !.raised = FALSE]
    /\ tracks' = << >>
    /\ history' = << >>
    /\ lastNow' = NoTime
    /\ lastBatch' = << >>
    /\ lastAssign' = << >>
    /\ UNCHANGED <<clock, darkStream, activeTracks, ticks, worldVars, vessel, bus>>

\* read_all_streams: XREADGROUP with id ">" returns the entries after the
\* last one the group delivered and puts them on the pending list; an error
\* of the call is caught and counted and the list is empty
Read ==
    /\ runner.pc = "read"
    /\ \E ok \in BOOLEAN :
          IF ok
          THEN LET messages == [k \in 1..(Len(bus.stream) - bus.delivered) |->
                                   bus.delivered + k]
               IN /\ bus' = [bus EXCEPT
                               !.delivered = Len(bus.stream),
                               !.pending = @ \cup {messages[k] : k \in DOMAIN messages}]
                  /\ runner' = [runner EXCEPT
                                  !.messages = messages,
                                  !.ackpos = 1,
                                  !.processed = {},
                                  !.tick_open = TRUE,
                                  !.read_ok = TRUE,
                                  !.pc = IF messages = << >> THEN "publish"
                                         ELSE "process"]
          ELSE /\ runner.faults < MaxFaults
               /\ runner' = [runner EXCEPT
                               !.messages = << >>,
                               !.processed = {},
                               !.tick_open = TRUE,
                               !.read_ok = FALSE,
                               !.errors = @ + 1,
                               !.faults = @ + 1,
                               !.clean = FALSE,
                               !.pc = "publish"]
               /\ UNCHANGED bus
    /\ UNCHANGED <<fusionVars, worldVars, vessel>>

\* process_batch up to its xack loop: parse every message, correlate, apply,
\* check_dark_ships, age_tracks; an exception of parse_detection leaves
\* process_batch and the loop of run()
Process ==
    /\ runner.pc = "process"
    /\ IF ParsesAll(runner.messages)
       THEN LET batch == ParsedBatch(runner.messages)
            IN \E asg \in BatchCorrelate(batch, tracks, clock) :
                LET applied == ApplyAssignments(tracks, batch, clock, asg)
                    checked == CheckDarkShips(applied, clock)
                    aged == AgeTracks(checked, clock)
                    done == {runner.messages[k] : k \in DOMAIN runner.messages}
                IN /\ Len(applied) <= MaxTracks
                   /\ tracks' = aged
                   /\ history' = Record(history, applied, checked, aged, ticks + 1)
                   /\ lastBatch' = batch
                   /\ lastAssign' = asg
                   /\ lastNow' = clock
                   /\ bus' = [bus EXCEPT !.stream =
                                [m \in DOMAIN bus.stream |->
                                    IF m \in done
                                    THEN [bus.stream[m] EXCEPT !.applied = @ + 1]
                                    ELSE bus.stream[m]]]
                   /\ runner' = [runner EXCEPT !.pc = "ack", !.ackpos = 1,
                                               !.processed = done]
       ELSE /\ runner' = [runner EXCEPT !.pc = "finally", !.raised = TRUE,
                                        !.clean = FALSE]
            /\ UNCHANGED <<tracks, history, lastBatch, lastAssign, lastNow, bus>>
    /\ UNCHANGED <<clock, darkStream, activeTracks, ticks, worldVars, vessel>>

\* one xack of process_batch's last loop; an exception of the call is
\* swallowed
Ack ==
    /\ runner.pc = "ack"
    /\ \E ok \in BOOLEAN :
          /\ IF ok
             THEN bus' = [bus EXCEPT !.pending = @ \ {runner.messages[runner.ackpos]}]
             ELSE runner.faults < MaxFaults /\ UNCHANGED bus
          /\ runner' = [runner EXCEPT
                          !.ackpos = @ + 1,
                          !.faults = IF ok THEN @ ELSE @ + 1,
                          !.clean = IF ok THEN @ ELSE FALSE,
                          !.pc = IF runner.ackpos = Len(runner.messages)
                                 THEN "publish" ELSE "ack"]
    /\ UNCHANGED <<fusionVars, worldVars, vessel>>

\* publish_tracks up to pipeline.execute(): the alerts are queued on the
\* pipeline and the flags of their tracks are cleared
PublishQueue ==
    /\ runner.pc = "publish"
    /\ runner' = [runner EXCEPT !.pipeline = Alerts(tracks),
                                !.cleared = @ + Len(Alerts(tracks)),
                                !.pc = "execute"]
    /\ tracks' = ClearFlags(tracks)
    /\ UNCHANGED <<clock, darkStream, activeTracks, ticks, lastNow, lastBatch,
                   lastAssign, history, worldVars, vessel, bus>>

\* pipeline.execute() of publish_tracks: the queued commands reach the
\* store, or the call raises and the exception leaves the loop of run()
Execute ==
    /\ runner.pc = "execute"
    /\ \E ok \in BOOLEAN :
          IF ok
          THEN /\ darkStream' = darkStream \o runner.pipeline
               /\ activeTracks' = PublishActive(tracks, activeTracks)
               /\ runner' = [runner EXCEPT !.pipeline = << >>, !.pc = "status"]
          ELSE /\ runner.faults < MaxFaults
               /\ runner' = [runner EXCEPT !.pipeline = << >>,
                                           !.pc = "finally",
                                           !.raised = TRUE,
                                           !.faults = @ + 1,
                                           !.clean = FALSE]
               /\ UNCHANGED <<darkStream, activeTracks>>
    /\ UNCHANGED <<clock, tracks, ticks, lastNow, lastBatch, lastAssign, history,
                   worldVars, vessel, bus>>

\* update_status in the loop: the hset of fusion:status, or the call raises
\* and the exception leaves the loop of run()
Status ==
    /\ runner.pc = "status"
    /\ \E ok \in BOOLEAN :
          IF ok
          THEN /\ bus' = [bus EXCEPT !.status =
                                       IF runner.running THEN "True" ELSE "False"]
               /\ runner' = [runner EXCEPT !.pc = "sleep", !.tick_open = FALSE]
          ELSE /\ runner.faults < MaxFaults
               /\ runner' = [runner EXCEPT !.pc = "finally",
                                           !.raised = TRUE,
                                           !.faults = @ + 1,
                                           !.clean = FALSE]
               /\ UNCHANGED bus
    /\ UNCHANGED <<fusionVars, worldVars, vessel>>

\* the rate-limiting sleep ends and `while self.running` is tested
Sleep ==
    /\ runner.pc = "sleep"
    /\ runner' = [runner EXCEPT !.pc = IF runner.running THEN "read" ELSE "finally"]
    /\ UNCHANGED <<fusionVars, worldVars, vessel, bus>>

\* stop()
Stop ==
    /\ runner.pc \in LoopPcs
    /\ runner.signal = "none"
    /\ runner' = [runner EXCEPT !.running = FALSE, !.signal = "stop"]
    /\ UNCHANGED <<fusionVars, worldVars, vessel, bus>>

\* The task of run() is cancelled: CancelledError is raised at the await the
\* task is suspended in; `except Exception` does not catch it
Cancel ==
    /\ runner.pc \in AwaitPcs
    /\ runner.signal = "none"
    /\ runner' = [runner EXCEPT !.pc = "finally", !.signal = "cancel",
                                !.pipeline = << >>]
    /\ UNCHANGED <<fusionVars, worldVars, vessel, bus>>

\* the finally block of run(): running = False and update_status, whose
\* hset may raise
Finally ==
    /\ runner.pc = "finally"
    /\ \E ok \in BOOLEAN :
          /\ IF ok
             THEN bus' = [bus EXCEPT !.status = "False"]
             ELSE runner.faults < MaxFaults /\ UNCHANGED bus
          /\ runner' = [runner EXCEPT !.pc = "exited",
                                      !.running = FALSE,
                                      !.raised = IF ok THEN @ ELSE TRUE,
                                      !.faults = IF ok THEN @ ELSE @ + 1,
                                      !.clean = IF ok THEN @ ELSE FALSE]
    /\ UNCHANGED <<fusionVars, worldVars, vessel>>

\* the process is killed: nothing of run() executes any more
Kill ==
    /\ runner.pc \in LoopPcs \cup {"finally"}
    /\ runner' = [runner EXCEPT !.pc = "stopped", !.running = FALSE,
                                !.pipeline = << >>]
    /\ UNCHANGED <<fusionVars, worldVars, vessel, bus>>

NextRunner ==
    \/ Produce
    \/ Start
    \/ Read
    \/ Process
    \/ Ack
    \/ PublishQueue
    \/ Execute
    \/ Status
    \/ Sleep
    \/ Stop
    \/ Cancel
    \/ Finally
    \/ Kill

SpecRunner == Init /\ [][NextRunner]_vars

(***************************************************************************)
(* C17: every message appended to an input stream is applied to track      *)
(* state at least once, also when the runner stops or fails between        *)
(* reading and acknowledging it and is restarted in the consumer group: a  *)
(* read but unacknowledged message is delivered again.  Checked where a    *)
(* read of the runner has returned without an error and empty: every       *)
(* parseable message the group ever delivered has then been applied.       *)
(***************************************************************************)
C17_AtLeastOnceDelivery ==
    (/\ runner.pc = "publish"
     /\ runner.read_ok
     /\ runner.messages = << >>) =>
        \A m \in 1..bus.delivered :
            bus.stream[m].valid => bus.stream[m].applied >= 1

\* The step is process_batch on a list with a message that does not parse
PoisonStep ==
    /\ runner.pc = "process"
    /\ runner'.pc \notin {"process", "stopped"}
    /\ ~ParsesAll(runner.messages)

(***************************************************************************)
(* C18: a message whose fields fail to parse is dropped, counted and       *)
(* acknowledged; the other messages of its batch are still correlated and  *)
(* applied, no track changes because of it, and the loop goes on.          *)
(***************************************************************************)
C18_PoisonMessageContained ==
    [][PoisonStep =>
          /\ runner'.pc = "ack"
          /\ runner'.messages = runner.messages
          /\ runner'.errors > runner.errors
          /\ ~runner'.raised
          /\ \A k \in 1..Len(runner.messages) :
                LET m == runner.messages[k]
                IN bus'.stream[m].applied =
                      bus.stream[m].applied + (IF bus.stream[m].valid THEN 1 ELSE 0)
          /\ Len(tracks') <= Len(tracks)
                + Cardinality({k \in 1..Len(runner.messages) :
                                  bus.stream[runner.messages[k]].valid})]_vars

\* The step is a store call of the loop that raised
TransientErrorStep ==
    /\ runner'.faults = runner.faults + 1
    /\ runner.pc \in {"read", "ack", "execute", "status"}

\* alerts whose flag publish_tracks cleared and that are neither on the
\* stream fusion:dark_ships nor queued on the pipeline
LostAlerts(r, stream) == r.cleared - Len(stream) - Len(r.pipeline)

(***************************************************************************)
(* C19: a transient error raised by a store call of a tick (stream read,   *)
(* ack, pipeline execute, status write) increments the error counter, the  *)
(* loop continues with the next tick, and no dark-ship alert whose flag    *)
(* was already cleared is lost.                                            *)
(***************************************************************************)
C19_TransientErrorTolerated ==
    [][TransientErrorStep =>
          /\ runner'.errors = runner.errors + 1
          /\ runner'.pc \in LoopPcs
          /\ ~runner'.raised
          /\ LostAlerts(runner', darkStream') = LostAlerts(runner, darkStream)]_vars

(***************************************************************************)
(* C20: after stop() or a task cancellation reaches a running runner, the  *)
(* tick in progress is finished, every message processed in it is          *)
(* acknowledged, the loop exits, and the last write to fusion:status has   *)
(* running = false.  Checked where run() has returned after a signal, in   *)
(* a run in which no store call raised.                                    *)
(***************************************************************************)
C20_GracefulTermination ==
    (/\ runner.pc = "exited"
     /\ runner.signal # "none"
     /\ runner.clean) =>
        /\ ~runner.tick_open
        /\ runner.processed \cap bus.pending = {}
        /\ bus.status = "False"

(***************************************************************************)
(* C21: after every publish step the set fusion:active_tracks equals the   *)
(* set of ids of the runner's non-dropped tracks, also when that set is    *)
(* empty.  Checked where pipeline.execute() of publish_tracks has          *)
(* returned.                                                               *)
(***************************************************************************)
C21_ActiveSetMatchesTracks ==
    runner.pc = "status" => activeTracks = ActiveIds(tracks)

\* ------------------------------------------------------------------------
\* SpecFleet: the speeds of the Fleet Store from initialize_fleet through
\* the ticks of the world simulator; speed in half knots
\* ------------------------------------------------------------------------

MinSpeedKnots == 1
MaxSpeedKnots == 30

\* VESSEL_TYPES: type, min_spd and max_spd in knots
VesselTypes ==
    {[vessel_type |-> "cargo", min_spd |-> 10, max_spd |-> 16],
     [vessel_type |-> "tanker", min_spd |-> 8, max_spd |-> 14],
     [vessel_type |-> "container", min_spd |-> 14, max_spd |-> 24],
     [vessel_type |-> "fishing", min_spd |-> 2, max_spd |-> 8],
     [vessel_type |-> "passenger", min_spd |-> 15, max_spd |-> 22],
     [vessel_type |-> "naval", min_spd |-> 15, max_spd |-> 35],
     [vessel_type |-> "tug", min_spd |-> 5, max_spd |-> 12],
     [vessel_type |-> "unknown", min_spd |-> 5, max_spd |-> 15]}

\* initialize_fleet: speed = random.uniform(min_spd, max_spd) of the
\* vessel's type; the draws taken are the two ends and the middle
InitialShips ==
    UNION {{[vessel_type |-> t.vessel_type, speed |-> v] :
                v \in {2 * t.min_spd, t.min_spd + t.max_spd, 2 * t.max_spd}} :
           t \in VesselTypes}

\* the draws of random.uniform(-0.5, 0.5) in Ship.move, in half knots
\* (0 also stands for the 99 in 100 moves that leave the speed alone)
SpeedAdjustments == {-1, 0, 1}

\* Ship.move: self.speed = max(1, min(30, self.speed + adjustment))
MoveSpeed(ship, adjustment) ==
    IF adjustment = 0 THEN ship
    ELSE [ship EXCEPT !.speed = Max(2 * MinSpeedKnots,
                                    Min(2 * MaxSpeedKnots, ship.speed + adjustment))]

InitFleet ==
    /\ InitFusion
    /\ InitRunner
    /\ fleet = [m \in Ships |-> TRUE]
    /\ world = [pc |-> "sleep", ships |-> << >>, updates |-> 0]
    /\ ingester = [ships |-> << >>, cycles |-> 0]
    /\ aisStream = << >>
    /\ vessel = StillVessel
    /\ speeds \in [Ships -> InitialShips]

\* one iteration of WorldSimulator.run on the speeds: get_all_ships, move
\* for every ship, update_ships_batch
WorldTick ==
    /\ \E adjustment \in [Ships -> SpeedAdjustments] :
          speeds' = [m \in Ships |-> MoveSpeed(speeds[m], adjustment[m])]
    /\ UNCHANGED <<fusionVars, fleet, world, ingester, aisStream, vessel, bus, runner>>

NextFleet == WorldTick

SpecFleet == InitFleet /\ [][NextFleet]_vars

(***************************************************************************)
(* C22: every vessel in the Fleet Store has a speed in [1, 30] knots in    *)
(* every reachable state, from fleet initialization on, for every vessel   *)
(* class.                                                                  *)
(***************************************************************************)
C22_SpeedWithinBounds ==
    \A m \in Ships :
        /\ speeds[m].speed >= 2 * MinSpeedKnots
        /\ speeds[m].speed <= 2 * MaxSpeedKnots

\* The status edge of track j in the step to the primed state is one the
\* lifecycle has, and was taken by the operation that owns it
LifecycleEdge(j) ==
    LET old == tracks[j].status
        new == tracks'[j].status
        updated == UpdatesOf(lastAssign', j) # {}
        gap == lastNow' - tracks[j].updated_at
    IN \/ new = old
       \/ /\ old = "tentative" /\ new = "confirmed"
          /\ updated
          /\ tracks'[j].update_count >= TentativeToConfirmedUpdates
       \/ /\ old \in {"tentative", "confirmed"} /\ new = "coasting"
          /\ ~updated
          /\ gap > CoastingTimeoutS /\ gap <= DropTimeoutS
       \/ /\ old = "coasting" /\ new = "confirmed"
          /\ updated
       \/ /\ old # "dropped" /\ new = "dropped"
          /\ ~updated
          /\ gap > DropTimeoutS

NanGaps == {0, 1}

NanDets ==
    {Detection("ais", "A", x, 0, 0, FALSE) : x \in {0, NaN}}
    \cup {Detection("radar", "", x, 0, 0, FALSE) : x \in {0, NaN}}

TickNan ==
    /\ ticks < MaxTicks
    /\ \E gap \in NanGaps, batch \in Singles(NanDets) :
          /\ clock + gap <= MaxClock
          /\ RunTick(gap, 0, batch)
    /\ UNCHANGED <<fleet, world, ingester, aisStream, vessel, bus, runner, speeds>>

NextNan == TickNan

SpecNan == Init /\ [][NextNan]_vars

\* every detection the tick applied to track j has a NaN latitude
OnlyNanUpdates(j) ==
    /\ UpdatesOf(lastAssign', j) # {}
    /\ \A i \in UpdatesOf(lastAssign', j) : lastBatch'[i].pos = NaN

(***************************************************************************)
(* C24: an update that would violate a track invariant (here a NaN         *)
(* latitude) is refused: after update_track the track's position,          *)
(* uncertainty, velocity, update_count, provenance, status and updated_at  *)
(* are what they were before the call.                                     *)
(***************************************************************************)
C24_InvalidUpdateRefused ==
    [][\A j \in 1..Len(tracks) :
          OnlyNanUpdates(j) =>
             /\ tracks'[j].latitude = tracks[j].latitude
             /\ tracks'[j].prec = tracks[j].prec
             /\ tracks'[j].velocity_east = tracks[j].velocity_east
             /\ tracks'[j].update_count = tracks[j].update_count
             /\ tracks'[j].sensor_contributions = tracks[j].sensor_contributions
             /\ tracks'[j].status = tracks[j].status
             /\ tracks'[j].updated_at = tracks[j].updated_at]_vars

(***************************************************************************)
(* C25: after any sequence of fusion ticks no two non-dropped tracks carry *)
(* the same non-empty mmsi, also when one batch holds two AIS reports of   *)
(* an mmsi that no track carries yet.                                      *)
(***************************************************************************)
C25_MmsiUniqueAmongAlive ==
    \A i, j \in ActiveIds(tracks) :
        (i # j /\ tracks[i].mmsi # "") => tracks[i].mmsi # tracks[j].mmsi

(***************************************************************************)
(* C26: once a track's mmsi is set, no later update changes it to another  *)
(* value while the track is alive; phase 2 never hands an AIS report of an *)
(* unbound mmsi to a track that carries a different mmsi.                  *)
(***************************************************************************)
C26_MmsiNeverOverwritten ==
    [][\A j \in 1..Len(tracks) :
          (tracks[j].mmsi # "" /\ tracks[j].status # "dropped") =>
              tracks'[j].mmsi = tracks[j].mmsi]_vars

\* ------------------------------------------------------------------------
\* SpecCrowd: the fusion runner fed an AIS report that makes a track and
\* pairs of drone contacts at the track's position and 450 m from it
\* ------------------------------------------------------------------------

CrowdBatches ==
    Singles({Detection("ais", "A", 0, 0, 0, FALSE)})
    \cup {<<Detection("drone", "", x, 0, 0, FALSE),
            Detection("drone", "", y, 0, 0, FALSE)>> : x, y \in {0, 45}}

TickCrowd ==
    /\ ticks < MaxTicks
    /\ \E batch \in CrowdBatches : RunTick(0, 0, batch)
    /\ UNCHANGED <<fleet, world, ingester, aisStream, vessel, bus, runner, speeds>>

NextCrowd == TickCrowd

SpecCrowd == Init /\ [][NextCrowd]_vars

\* The identity-less detections of the batch that fall inside the gate of
\* track j as correlate_detection computes it at `now`
InGateOf(batch, trks, now, j) ==
    {i \in DOMAIN batch :
        /\ batch[i].mmsi = ""
        /\ InGate(GateDistanceM(batch[i], trks[j], now), trks[j], batch[i].sensor)}

\* Track j is the only track whose gate holds a detection of the set K
OnlyGate(batch, trks, now, j, K) ==
    \A t \in ActiveIds(trks) \ {j} : InGateOf(batch, trks, now, t) \cap K = {}

\* Phase 2 of the assignment is one-to-one over the track columns and uses
\* no track entry that costs more than new_track_cost
OneToOneUnderNewTrackCost(asg) ==
    /\ \A i, k \in DOMAIN asg :
          (i # k /\ asg[i].phase = 2 /\ asg[k].phase = 2 /\ asg[i].track # 0)
              => asg[i].track # asg[k].track
    /\ \A i \in DOMAIN asg :
          (asg[i].phase = 2 /\ asg[i].track # 0)
              => 10000 - asg[i].confidence <= NewTrackCost

\* C27 (as stated): phase 2 gives a track at most one observation and never
\* at a cost above new_track_cost, and of k > 1 identity-less observations
\* inside the gate of one single track exactly one updates the track while
\* the other k - 1 are returned in NEW
C27_ExactlyOneOfCrowdUpdates ==
    [][(ticks' = ticks + 1 /\ lastBatch' # << >>) =>
         /\ OneToOneUnderNewTrackCost(lastAssign')
         /\ \A j \in ActiveIds(tracks) :
              LET K == InGateOf(lastBatch', tracks, lastNow', j)
              IN (Cardinality(K) > 1 /\ OnlyGate(lastBatch', tracks, lastNow', j, K))
                    => /\ Cardinality({i \in K : lastAssign'[i].track = j}) = 1
                       /\ \A i \in K : lastAssign'[i].track \in {0, j}]_vars

\* C27 (amended): phase 2 gives a track at most one observation and never at
\* a cost above new_track_cost; of k > 1 identity-less observations inside
\* the gate of one single track at most one updates the track and the rest
\* are returned in NEW: exactly one when some observation costs less than
\* new_track_cost against the track, none when every one costs more
C27_AtMostOneOfCrowdUpdates ==
    [][(ticks' = ticks + 1 /\ lastBatch' # << >>) =>
         /\ OneToOneUnderNewTrackCost(lastAssign')
         /\ \A j \in ActiveIds(tracks) :
              LET K == InGateOf(lastBatch', tracks, lastNow', j)
                  cost == [i \in K |-> TrackCost(lastBatch'[i], tracks[j], lastNow')]
                  upd == {i \in K : lastAssign'[i].track = j}
              IN (Cardinality(K) > 1 /\ OnlyGate(lastBatch', tracks, lastNow', j, K))
                    => /\ Cardinality(upd) <= 1
                       /\ \A i \in K : lastAssign'[i].track \in {0, j}
                       /\ (\E i \in K : cost[i] >= 0 /\ cost[i] < NewTrackCost)
                             => Cardinality(upd) = 1
                       /\ (\A i \in K : cost[i] < 0 \/ cost[i] > NewTrackCost)
                             => upd = {}]_vars

\* Two drone contacts inside the gate of the single track 1: the one at the
\* track's position updated it and the one 450 m away made track 2
C27_Witness ==
    /\ Len(tracks) = 2
    /\ Len(lastBatch) = 2
    /\ lastBatch[1].mmsi = "" /\ lastBatch[2].mmsi = ""
    /\ lastBatch[1].pos = 0 /\ lastBatch[2].pos = 45
    /\ lastAssign[1].track = 1 /\ lastAssign[1].phase = 2
    /\ lastAssign[2].track = 0
    /\ tracks[1].mmsi = "A"
    /\ tracks[2].update_count = 1

SensorDets ==
    {Detection(s, "", 0, 0, 0, FALSE) : s \in {"radar", "satellite", "drone"}}

TickSensors ==
    /\ ticks < MaxTicks + 1
    /\ \E batch \in Singles(SensorDets) : RunTick(0, 0, batch)
    /\ UNCHANGED <<fleet, world, ingester, aisStream, vessel, bus, runner, speeds>>

NextSensors == TickSensors

SpecSensors == Init /\ [][NextSensors]_vars

\* check_dark_ships set is_dark_ship on track j in this step
MarkedDark(j) ==
    history'[j].dark_marks >
        (IF j <= Len(history) THEN history[j].dark_marks ELSE 0)

\* check_dark_ships set flagged_for_review on track j in this step
MarkedFlagged(j) ==
    history'[j].flag_marks >
        (IF j <= Len(history) THEN history[j].flag_marks ELSE 0)

\* C29: whenever the multi-sensor rule of check_dark_ships (identity_source
\* unknown, not yet dark, two non-AIS sensors or a drone) sets is_dark_ship,
\* the confidence it computes is at least dark_ship_alert_threshold and
\* flagged_for_review is set in the same call
C29_MultiSensorDarkIsFlagged ==
    [][\A j \in 1..Len(tracks') :
          (MarkedDark(j) /\ tracks'[j].identity_source = "unknown")
              => /\ tracks'[j].dark_ship_confidence >= DarkShipAlertThreshold
                 /\ MarkedFlagged(j)]_vars

\* The weakest combination: radar with fewer than min_radar_correlations
\* measurements plus a satellite made the track dark at confidence 0.6
C29_Witness ==
    \E j \in 1..Len(tracks) :
        /\ tracks[j].identity_source = "unknown"
        /\ history[j].dark_marks = 1
        /\ history[j].flag_marks = 1
        /\ ContributingSensors(tracks[j]) = {"radar", "satellite"}
        /\ tracks[j].sensor_contributions["radar"].measurement_count
              < MinRadarCorrelations
        /\ tracks[j].dark_ship_confidence = DarkShipAlertThreshold

\* ------------------------------------------------------------------------
\* SpecLag: the fusion runner when the clock may advance between
\* process_batch's read of `now` and the read of update_track / create_track
\* ------------------------------------------------------------------------

\* seconds between two successive iterations, and between process_batch's
\* clock read and the later one of update_track and create_track
LagGaps == {0, 1}
LagSteps == {0, 1}

LagDets ==
    {Detection("ais", "A", 0, 0, 0, FALSE), Detection("radar", "", 0, 0, 0, FALSE)}

TickLag ==
    /\ ticks < MaxTicks
    /\ \E gap \in LagGaps, lag \in LagSteps, batch \in Singles(LagDets) :
          /\ clock + gap + lag <= MaxClock
          /\ RunTick(gap, lag, batch)
    /\ UNCHANGED <<fleet, world, ingester, aisStream, vessel, bus, runner, speeds>>

NextLag == TickLag

SpecLag == Init /\ [][NextLag]_vars

\* C30: after every check_dark_ships call the ais_gap_seconds of every track
\* with identity_source = ais is at least 0, although update_track stamps
\* ais_last_seen with a clock read later than process_batch's `now`
C30_AisGapNonNegative ==
    \A j \in 1..Len(tracks) :
        (tracks[j].identity_source = "ais" /\ tracks[j].ais_gap_seconds # NoGap)
            => tracks[j].ais_gap_seconds >= 0

====
